---------------------------- MODULE Spec2Model ----------------------------
(***************************************************************************)
(* Voice-Emotion-Analysis-Dashboard: the segmentation, classification and  *)
(* aggregation pipeline of src/app.py, src/audio_processing/preprocess.py  *)
(* and src/emotion_model/model.py.                                         *)
(*                                                                         *)
(* Units.  Reported times are Python floats rounded to 2 decimals; they    *)
(* are integers in hundredths of a second here (Round2).  Scores, energy,  *)
(* zero-crossing rate and pitch statistics are exact rationals [n, d] in   *)
(* lowest terms.  Confidences are rounded to 4 decimals: integers in       *)
(* 1/10000.  Sample amplitudes are integers in halves of full scale.       *)
(***************************************************************************)
EXTENDS Integers, Sequences, FiniteSets, TLC

(***************************************************************************)
(* Bounds of the model.                                                    *)
(***************************************************************************)
MaxSamples == 3
PitchFrames == 2
MaxResults == 5

(***************************************************************************)
(* Arithmetic helpers: exact rationals and Python's round().               *)
(***************************************************************************)
Abs(x) == IF x < 0 THEN -x ELSE x

RECURSIVE GCD(_, _)
GCD(a, b) == IF b = 0 THEN a ELSE GCD(b, a % b)

Rat(n, d) ==
    LET g == GCD(Abs(n), d)
    IN  [n |-> n \div g, d |-> d \div g]

RatAdd(a, b) == Rat(a.n * b.d + b.n * a.d, a.d * b.d)
RatDiv(a, b) == Rat(a.n * b.d, a.d * b.n)
RatGt(a, b) == a.n * b.d > b.n * a.d
RatLt(a, b) == a.n * b.d < b.n * a.d
RatGe(a, b) == ~RatLt(a, b)
RatLe(a, b) == ~RatGt(a, b)
Zero == Rat(0, 1)
One == Rat(1, 1)

\* round(n/d) to the nearest integer, ties to even, for n >= 0 and d > 0
RoundHalfEven(n, d) ==
    LET q == n \div d
        r == n % d
    IN  IF 2 * r < d THEN q
        ELSE IF 2 * r > d THEN q + 1
        ELSE IF q % 2 = 0 THEN q ELSE q + 1

\* a variant that truncates to 2 decimals
Round2Floor(samples, sample_rate) == (samples * 100) \div sample_rate

\* round(samples / sample_rate, 2), in hundredths of a second
Round2(samples, sample_rate) == RoundHalfEven(samples * 100, sample_rate)

\* round(x, 4) of a rational x >= 0, in 1/10000
Round4(x) == RoundHalfEven(x.n * 10000, x.d)

RECURSIVE SeqSum(_)
SeqSum(s) == IF s = << >> THEN 0 ELSE Head(s) + SeqSum(Tail(s))

Min(a, b) == IF a < b THEN a ELSE b

(***************************************************************************)
(* Python dicts: insertion-ordered sequences of [k, v] items.              *)
(***************************************************************************)
DictHas(d, key) == \E i \in 1..Len(d) : d[i].k = key

DictGet(d, key, default) ==
    IF DictHas(d, key)
    THEN d[CHOOSE i \in 1..Len(d) : d[i].k = key].v
    ELSE default

\* d[key] = value: an existing key keeps its position, a new key goes last
DictSet(d, key, value) ==
    IF DictHas(d, key)
    THEN [i \in 1..Len(d) |-> IF d[i].k = key THEN [k |-> key, v |-> value] ELSE d[i]]
    ELSE Append(d, [k |-> key, v |-> value])

\* max(d.items(), key=lambda x: x[1])[0]: the first item of maximal value
RatArgMax(d) ==
    d[CHOOSE i \in 1..Len(d) :
        /\ \A j \in 1..Len(d) : RatLe(d[j].v, d[i].v)
        /\ \A j \in 1..(i - 1) : RatLt(d[j].v, d[i].v)].k

(***************************************************************************)
(* EmotionDetector: label sets.                                            *)
(***************************************************************************)
ModelEmotions ==
    <<"angry", "calm", "disgust", "fearful", "happy", "neutral", "sad", "surprised">>

FallbackEmotions ==
    <<"neutral", "happy", "sad", "angry", "fearful", "surprised">>

(***************************************************************************)
(* EmotionDetector._predict_with_features: the rule-based classifier.      *)
(* A feature vector is [energy, zero_crossing_rate, pitch_mean, pitch_var] *)
(* of rationals; pitch_var is the square of the code's pitch_std, so the   *)
(* code's test pitch_std > 50 is pitch_var > 2500.                         *)
(***************************************************************************)
InitScores(emotions) ==
    [i \in 1..Len(emotions) |-> [k |-> emotions[i], v |-> Zero]]

\* a variant whose first test is energy >= 0.5
RuleScoresGe(features, emotions) ==
    LET scores == InitScores(emotions)
    IN  IF RatGe(features.energy, Rat(5, 10))
        THEN IF RatGt(features.pitch_var, Rat(2500, 1))
             THEN DictSet(DictSet(scores, "angry", Rat(4, 10)), "surprised", Rat(3, 10))
             ELSE DictSet(scores, "happy", Rat(5, 10))
        ELSE IF RatLt(features.energy, Rat(2, 10))
        THEN IF RatLt(features.pitch_mean, Rat(150, 1))
             THEN DictSet(scores, "sad", Rat(6, 10))
             ELSE DictSet(scores, "neutral", Rat(5, 10))
        ELSE LET s1 == IF RatGt(features.zero_crossing_rate, Rat(1, 10))
                       THEN DictSet(scores, "fearful", Rat(4, 10))
                       ELSE scores
             IN  DictSet(s1, "neutral", Rat(4, 10))

RuleScores(features, emotions) ==
    LET scores == InitScores(emotions)
    IN  IF RatGt(features.energy, Rat(5, 10))
        THEN IF RatGt(features.pitch_var, Rat(2500, 1))
             THEN DictSet(DictSet(scores, "angry", Rat(4, 10)), "surprised", Rat(3, 10))
             ELSE DictSet(scores, "happy", Rat(5, 10))
        ELSE IF RatLt(features.energy, Rat(2, 10))
        THEN IF RatLt(features.pitch_mean, Rat(150, 1))
             THEN DictSet(scores, "sad", Rat(6, 10))
             ELSE DictSet(scores, "neutral", Rat(5, 10))
        ELSE LET s1 == IF RatGt(features.zero_crossing_rate, Rat(1, 10))
                       THEN DictSet(scores, "fearful", Rat(4, 10))
                       ELSE scores
             IN  DictSet(s1, "neutral", Rat(4, 10))

RECURSIVE RatSeqSum(_)
RatSeqSum(d) == IF d = << >> THEN Zero ELSE RatAdd(Head(d).v, RatSeqSum(Tail(d)))

\* a variant that skips the division of line 136
NormalizeScoresNone(scores) ==
    LET total == RatSeqSum(scores)
    IN  IF RatGt(total, Zero)
        THEN scores
        ELSE DictSet(scores, "neutral", One)

NormalizeScores(scores) ==
    LET total == RatSeqSum(scores)
    IN  IF RatGt(total, Zero)
        THEN [i \in 1..Len(scores) |-> [k |-> scores[i].k, v |-> RatDiv(scores[i].v, total)]]
        ELSE DictSet(scores, "neutral", One)

PredictFromScores(raw) ==
    LET scores == NormalizeScores(raw)
        predicted_emotion == RatArgMax(scores)
    IN  [emotion |-> predicted_emotion,
         confidence |-> Round4(DictGet(scores, predicted_emotion, Zero)),
         scores |-> scores]

PredictWithFeatures(features, emotions) ==
    PredictFromScores(RuleScores(features, emotions))

(***************************************************************************)
(* EmotionDetector._extract_features.  A chunk is [audio_data, finite,     *)
(* ...]; amplitudes are in halves of full scale, so energy = sum(x^2) /    *)
(* (4 * len).  librosa.piptrack is a library: its per-frame                *)
(* strongest pitch is an input `track` (a sequence of PitchFrames values   *)
(* from PitchBins), all zero for an all-zero signal; `pip_raises` is the   *)
(* library call raising inside the try of lines 159-172.                   *)
(***************************************************************************)
Amplitudes == {-2, 0, 1}
PitchBins == {0, 100, 300}

RECURSIVE SumSq(_)
SumSq(s) == IF s = << >> THEN 0 ELSE Head(s) * Head(s) + SumSq(Tail(s))

\* np.sum(audio_data ** 2) / len(audio_data)
Energy(audio) == Rat(SumSq(audio), 4 * Len(audio))

\* librosa.feature.zero_crossing_rate: sign changes between consecutive
\* samples (zero counts as positive, the first sample is not a crossing)
ZeroCrossingRate(audio) ==
    Rat(Cardinality({i \in 2..Len(audio) : (audio[i] < 0) # (audio[i - 1] < 0)}),
        Len(audio))

IsSilent(audio) == \A i \in 1..Len(audio) : audio[i] = 0

\* lines 161-166: keep the frames whose strongest pitch is positive
RECURSIVE PitchValues(_)
PitchValues(track) ==
    IF track = << >> THEN << >>
    ELSE IF Head(track) > 0 THEN <<Head(track)>> \o PitchValues(Tail(track))
    ELSE PitchValues(Tail(track))

PitchMean(pitch_values) ==
    IF pitch_values = << >> THEN Zero
    ELSE Rat(SeqSum(pitch_values), Len(pitch_values))

\* np.std squared: mean of squares minus square of mean
PitchVar(pitch_values) ==
    IF pitch_values = << >> THEN Zero
    ELSE Rat(Len(pitch_values) * SumSq(pitch_values)
                - SeqSum(pitch_values) * SeqSum(pitch_values),
             Len(pitch_values) * Len(pitch_values))

ExtractFeatures(audio, track, pip_raises) ==
    LET pitch_values == IF pip_raises THEN << >> ELSE PitchValues(track)
    IN  [energy |-> Energy(audio),
         zero_crossing_rate |-> ZeroCrossingRate(audio),
         pitch_mean |-> PitchMean(pitch_values),
         pitch_var |-> PitchVar(pitch_values)]

\* the tracks piptrack can return for a signal
Tracks(audio) ==
    IF IsSilent(audio) THEN {[i \in 1..PitchFrames |-> 0]}
    ELSE [1..PitchFrames -> PitchBins]

\* what the call of librosa.piptrack does: it returns a track, or it raises
PiptrackOutcomes(audio) ==
    [track : Tracks(audio), raises : {FALSE}]
        \cup {[track |-> << >>, raises |-> TRUE]}

(***************************************************************************)
(* EmotionDetector._predict_with_model: the pretrained model is a library; *)
(* its softmax output is an input drawn from ModelProbabilities (tenths,   *)
(* in the order of ModelEmotions), or the inference raises.  The chunks    *)
(* come from AudioProcessor() at the model's own rate (16000 Hz in app.py) *)
(* so the resampling of lines 51-57 is not taken and the fallback of line  *)
(* 94 sees the chunk's own samples.                                        *)
(***************************************************************************)
ModelProbabilities ==
    { <<1, 6, 0, 0, 1, 1, 1, 0>>, <<0, 0, 0, 0, 5, 0, 5, 0>> }

\* lines 75-90: np.argmax (first maximum), confidence, zip into scores
PredictWithModel(probabilities, emotions) ==
    LET scores == [i \in 1..Len(emotions) |->
                      [k |-> emotions[i], v |-> Rat(probabilities[i], 10)]]
        predicted_emotion == RatArgMax(scores)
    IN  [emotion |-> predicted_emotion,
         confidence |-> Round4(DictGet(scores, predicted_emotion, Zero)),
         scores |-> scores]

(***************************************************************************)
(* AudioProcessor.  A configuration is the constructor's chunk_duration    *)
(* (hundredths of a second) and sample_rate (samples per second), scaled   *)
(* down from the default 3.0 s at 16000 Hz so that a chunk is a few        *)
(* samples: 1.00 s at 3 Hz and 0.25 s at 8 Hz fall on whole samples and    *)
(* whole hundredths, 0.67 s at 3 Hz does not.                              *)
(***************************************************************************)
Configs ==
    { [chunk_duration |-> 100, sample_rate |-> 3],
      [chunk_duration |-> 25, sample_rate |-> 8],
      [chunk_duration |-> 67, sample_rate |-> 3] }

\* int(self.chunk_duration * sample_rate)
ChunkSamples(chunk_duration, rate) == (chunk_duration * rate) \div 100

Waveforms == UNION { [1..n -> Amplitudes] : n \in 0..MaxSamples }

\* an uploaded file: which decoder reads it, its samples and its sample rate
\* as a multiple of the processor's
Files ==
    [decoder : {"librosa", "pydub", "none"}, samples : Waveforms, rate_factor : {1, 2}]

\* np.max(np.abs(audio_data)) of a non-empty signal
PeakAbs(audio) ==
    CHOOSE m \in {Abs(audio[i]) : i \in 1..Len(audio)} :
        \A i \in 1..Len(audio) : Abs(audio[i]) <= m

\* lines 64-67 for a non-silent signal: audio_data / np.max(np.abs(audio_data)),
\* the peak becoming full scale (2 halves)
PeakNormalize(audio) ==
    [i \in 1..Len(audio) |-> (audio[i] * 2) \div PeakAbs(audio)]

\* librosa.resample from twice the target rate: ceil(n / 2) samples
Resample(audio) ==
    [i \in 1..((Len(audio) + 1) \div 2) |-> audio[2 * i - 1]]

\* a variant that leaves a short chunk at its own length
PadNone(audio, chunk_samples) == audio

\* np.pad(chunk_audio, (0, chunk_samples - len(chunk_audio)), mode='constant')
Pad(audio, chunk_samples) ==
    audio \o [i \in 1..(chunk_samples - Len(audio)) |-> 0]

\* one iteration of the while loop of _split_into_chunks
\* a variant that stamps the end of the padded window, not of the audio
MakeChunkWindowEnd(audio, finite, position, chunk_samples, rate) ==
    LET start_sample == position
        end_sample == Min(position + chunk_samples, Len(audio))
        chunk_audio == SubSeq(audio, start_sample + 1, end_sample)
    IN  [audio_data |-> IF Len(chunk_audio) < chunk_samples
                        THEN Pad(chunk_audio, chunk_samples)
                        ELSE chunk_audio,
         finite |-> finite,
         sample_rate |-> rate,
         start_time |-> Round2(start_sample, rate),
         end_time |-> Round2(start_sample + chunk_samples, rate),
         duration |-> Round2(chunk_samples, rate)]

MakeChunk(audio, finite, position, chunk_samples, rate) ==
    LET start_sample == position
        end_sample == Min(position + chunk_samples, Len(audio))
        chunk_audio == SubSeq(audio, start_sample + 1, end_sample)
    IN  [audio_data |-> IF Len(chunk_audio) < chunk_samples
                        THEN Pad(chunk_audio, chunk_samples)
                        ELSE chunk_audio,
         finite |-> finite,
         sample_rate |-> rate,
         start_time |-> Round2(start_sample, rate),
         end_time |-> Round2(end_sample, rate),
         duration |-> Round2(end_sample - start_sample, rate)]

\* a variant that resumes from start_sample
NextPositionStart(audio, position, chunk_samples) == position

\* line 109: current_position = end_sample
NextPosition(audio, position, chunk_samples) ==
    Min(position + chunk_samples, Len(audio))

(***************************************************************************)
(* app.py: detect_emotion_changes and calculate_statistics.                *)
(***************************************************************************)
\* the for loop of lines 90-100 from index i on, previous_emotion carried
RECURSIVE ChangesFrom(_, _, _)
ChangesFrom(results, i, previous_emotion) ==
    IF i > Len(results) THEN << >>
    ELSE LET current_emotion == results[i].emotion
         IN  IF current_emotion # previous_emotion
             THEN <<[timestamp |-> results[i].start_time,
                     from_emotion |-> previous_emotion,
                     to_emotion |-> current_emotion,
                     confidence |-> results[i].confidence]>>
                  \o ChangesFrom(results, i + 1, current_emotion)
             ELSE ChangesFrom(results, i + 1, previous_emotion)

\* a variant that never updates previous_emotion (line 100 dropped)
RECURSIVE ChangesFromStale(_, _, _)
ChangesFromStale(results, i, previous_emotion) ==
    IF i > Len(results) THEN << >>
    ELSE LET current_emotion == results[i].emotion
         IN  IF current_emotion # previous_emotion
             THEN <<[timestamp |-> results[i].start_time,
                     from_emotion |-> previous_emotion,
                     to_emotion |-> current_emotion,
                     confidence |-> results[i].confidence]>>
                  \o ChangesFromStale(results, i + 1, previous_emotion)
             ELSE ChangesFromStale(results, i + 1, previous_emotion)

DetectEmotionChangesStale(results) ==
    IF Len(results) < 2 THEN << >>
    ELSE ChangesFromStale(results, 2, results[1].emotion)

DetectEmotionChanges(results) ==
    IF Len(results) < 2 THEN << >>
    ELSE ChangesFrom(results, 2, results[1].emotion)

\* lines 110-116: emotion_counts / emotion_durations after the first i results
RECURSIVE EmotionCounts(_, _)
EmotionCounts(results, i) ==
    IF i = 0 THEN << >>
    ELSE LET d == EmotionCounts(results, i - 1)
             emotion == results[i].emotion
         IN  DictSet(d, emotion, DictGet(d, emotion, 0) + 1)

RECURSIVE EmotionDurations(_, _)
EmotionDurations(results, i) ==
    IF i = 0 THEN << >>
    ELSE LET d == EmotionDurations(results, i - 1)
             emotion == results[i].emotion
             duration == results[i].end_time - results[i].start_time
         IN  DictSet(d, emotion, DictGet(d, emotion, 0) + duration)

RECURSIVE TotalDuration(_, _)
TotalDuration(results, i) ==
    IF i = 0 THEN 0
    ELSE TotalDuration(results, i - 1) + (results[i].end_time - results[i].start_time)

\* a variant that returns the last item of maximal value
IntArgMaxLast(d) ==
    d[CHOOSE i \in 1..Len(d) :
        /\ \A j \in 1..Len(d) : d[j].v <= d[i].v
        /\ \A j \in (i + 1)..Len(d) : d[j].v < d[i].v].k

\* max(emotion_durations.items(), key=lambda x: x[1])[0]
IntArgMax(d) ==
    d[CHOOSE i \in 1..Len(d) :
        /\ \A j \in 1..Len(d) : d[j].v <= d[i].v
        /\ \A j \in 1..(i - 1) : d[j].v < d[i].v].k

\* percentages are rounded to 2 decimals: integers in 1/100 of a percent
CalculateStatistics(results) ==
    LET emotion_counts == EmotionCounts(results, Len(results))
        emotion_durations == EmotionDurations(results, Len(results))
        total_duration == TotalDuration(results, Len(results))
    IN  [total_duration |-> total_duration,
         emotion_counts |-> emotion_counts,
         emotion_durations |-> emotion_durations,
         emotion_percentages |->
            [i \in 1..Len(emotion_durations) |->
                [k |-> emotion_durations[i].k,
                 v |-> IF total_duration > 0
                       THEN RoundHalfEven(emotion_durations[i].v * 10000, total_duration)
                       ELSE 0]],
         dominant_emotion |->
            IF emotion_durations # << >> THEN IntArgMax(emotion_durations) ELSE "Unknown"]

(***************************************************************************)
(* State.                                                                  *)
(*   model_loaded, emotions   EmotionDetector.model is not None, .emotions *)
(*   config                   AudioProcessor.chunk_duration, .sample_rate  *)
(*   pc                       position of the request in analyze_audio     *)
(*   audio_data, audio_finite the decoded, resampled waveform; audio_finite*)
(*                            is FALSE when every sample is NaN (0 / 0 at  *)
(*                            line 67), audio_data then keeps the zeros    *)
(*   current_position, chunks locals of _split_into_chunks                 *)
(*   results, emotion_changes, statistics   locals of analyze_audio        *)
(*   response                 what the caller receives                     *)
(*   attempts                 history: one record per predict_emotion call *)
(*   features, raw_scores, prediction   locals of _predict_with_features   *)
(***************************************************************************)
VARIABLES model_loaded, emotions, config, pc, audio_data, audio_finite,
          current_position, chunks, results, emotion_changes, statistics,
          response, attempts, features, raw_scores, prediction

vars == <<model_loaded, emotions, config, pc, audio_data, audio_finite,
          current_position, chunks, results, emotion_changes, statistics,
          response, attempts, features, raw_scores, prediction>>

detectorVars == <<model_loaded, emotions, config>>
segmentVars == <<audio_data, audio_finite, current_position, chunks>>
classifyVars == <<features, raw_scores, prediction>>
aggregateVars == <<emotion_changes, statistics>>

NoStatistics ==
    [total_duration |-> 0, emotion_counts |-> << >>, emotion_durations |-> << >>,
     emotion_percentages |-> << >>, dominant_emotion |-> "Unknown"]

NoResponse ==
    [status |-> "none", error |-> "", results |-> << >>, emotion_changes |-> << >>,
     statistics |-> NoStatistics]

\* line 79: jsonify({'error': str(e)}), 500; e names the call that raised
ErrorResponse(e) ==
    [status |-> "error", error |-> e, results |-> << >>, emotion_changes |-> << >>,
     statistics |-> NoStatistics]

NoFeatures ==
    [energy |-> Zero, zero_crossing_rate |-> Zero, pitch_mean |-> Zero, pitch_var |-> Zero]

NoPrediction == [emotion |-> "", confidence |-> 0, scores |-> << >>]

RequestInit ==
    /\ audio_data = << >>
    /\ audio_finite = TRUE
    /\ current_position = 0
    /\ chunks = << >>
    /\ results = << >>
    /\ emotion_changes = << >>
    /\ statistics = NoStatistics
    /\ response = NoResponse
    /\ attempts = << >>
    /\ features = NoFeatures
    /\ raw_scores = << >>
    /\ prediction = NoPrediction

\* module level of app.py: AudioProcessor() and EmotionDetector() constructed,
\* the pretrained model loaded or not (lines 15-29 of model.py)
Init ==
    /\ model_loaded \in BOOLEAN
    /\ emotions = IF model_loaded THEN ModelEmotions ELSE FallbackEmotions
    /\ config \in Configs
    /\ pc = "idle"
    /\ RequestInit

(***************************************************************************)
(* AudioProcessor.process_audio: _load_audio, then librosa.resample when   *)
(* the file's rate differs.  Outcomes are [ok, audio, finite].             *)
(***************************************************************************)
Raised(e) == [ok |-> FALSE, error |-> e, audio |-> << >>, finite |-> TRUE]

Loaded(audio, finite) == [ok |-> TRUE, error |-> "", audio |-> audio, finite |-> finite]

LoadAudio(file) ==
    IF file.decoder = "librosa"
    THEN Loaded(file.samples, TRUE)
    ELSE IF file.decoder = "pydub"
    THEN IF file.samples = << >>
         THEN Raised("load")    \* np.max of an empty array raises, re-raised at line 71
         ELSE IF IsSilent(file.samples)
         THEN Loaded(file.samples, FALSE)    \* 0 / 0: every sample is NaN
         ELSE Loaded(PeakNormalize(file.samples), TRUE)
    ELSE Raised("load")

\* the outcomes of process_audio up to the call of _split_into_chunks
ProcessAudioOutcomes(file) ==
    LET loaded == LoadAudio(file)
    IN  IF ~loaded.ok THEN {loaded}
        ELSE IF file.rate_factor = 1 THEN {loaded}
        ELSE IF ~loaded.finite THEN {Raised("resample")}   \* librosa rejects NaN audio
        ELSE IF loaded.audio = << >>
        THEN {Raised("resample"), loaded}        \* depends on the librosa version
        ELSE {Loaded(Resample(loaded.audio), TRUE)}

\* a variant that notes the failure and goes on with an empty waveform
ProcessAudioRaisesGoesOn ==
    /\ pc = "idle"
    /\ \E file \in Files : \E out \in ProcessAudioOutcomes(file) :
          /\ ~out.ok
          /\ response' = ErrorResponse(out.error)
    /\ pc' = "split"
    /\ UNCHANGED <<detectorVars, segmentVars, results, aggregateVars, attempts, classifyVars>>

ProcessAudioRaises ==
    /\ pc = "idle"
    /\ \E file \in Files : \E out \in ProcessAudioOutcomes(file) :
          /\ ~out.ok
          /\ response' = ErrorResponse(out.error)
    /\ pc' = "error"
    /\ UNCHANGED <<detectorVars, segmentVars, results, aggregateVars, attempts, classifyVars>>

ProcessAudioLoaded ==
    /\ pc = "idle"
    /\ \E file \in Files : \E out \in ProcessAudioOutcomes(file) :
          /\ out.ok
          /\ audio_data' = out.audio
          /\ audio_finite' = out.finite
    /\ current_position' = 0
    /\ chunks' = << >>
    /\ pc' = "split"
    /\ UNCHANGED <<detectorVars, results, aggregateVars, response, attempts, classifyVars>>

\* one iteration of the while loop.  A loop that ends makes at most MaxSamples
\* iterations (one sample or more per chunk); the model follows a loop for
\* MaxSamples + 1 iterations and no further.
SplitStep ==
    /\ pc = "split"
    /\ current_position < Len(audio_data)
    /\ Len(chunks) <= MaxSamples
    /\ LET chunk_samples == ChunkSamples(config.chunk_duration, config.sample_rate)
       IN  /\ chunks' = Append(chunks, MakeChunk(audio_data, audio_finite, current_position,
                                                 chunk_samples, config.sample_rate))
           /\ current_position' = NextPosition(audio_data, current_position, chunk_samples)
    /\ UNCHANGED <<detectorVars, pc, audio_data, audio_finite, results, aggregateVars,
                   response, attempts, classifyVars>>

\* a variant that rejects a waveform that gave no chunk
SplitDoneEmptyAudio ==
    /\ pc = "split"
    /\ ~(current_position < Len(audio_data))
    /\ IF chunks = << >>
       THEN /\ pc' = "error"
            /\ response' = ErrorResponse("EmptyAudio")
            /\ UNCHANGED results
       ELSE /\ results' = << >>
            /\ pc' = "predict"
            /\ UNCHANGED response
    /\ UNCHANGED <<detectorVars, segmentVars, aggregateVars, attempts, classifyVars>>

SplitDone ==
    /\ pc = "split"
    /\ ~(current_position < Len(audio_data))
    /\ results' = << >>
    /\ pc' = "predict"
    /\ UNCHANGED <<detectorVars, segmentVars, aggregateVars, response, attempts, classifyVars>>

(***************************************************************************)
(* analyze_audio, lines 46-60: predict_emotion on the next chunk.          *)
(***************************************************************************)
NextChunk == chunks[Len(results) + 1]

\* lines 54-60
Result(chunk, emotion_data) ==
    [start_time |-> chunk.start_time,
     end_time |-> chunk.end_time,
     emotion |-> emotion_data.emotion,
     confidence |-> emotion_data.confidence,
     all_scores |-> emotion_data.scores]

\* the record of one predict_emotion call: was the model tried, did it
\* raise, did _predict_with_features run, did an exception leave the call
Attempt(model_attempted, model_raised, rule_ran, error) ==
    [model_attempted |-> model_attempted, model_raised |-> model_raised,
     rule_ran |-> rule_ran, error |-> error]

\* _predict_with_model returns the model's prediction
PredictModel ==
    /\ pc = "predict"
    /\ Len(results) < Len(chunks)
    /\ model_loaded
    /\ \E probabilities \in ModelProbabilities :
          results' = Append(results, Result(NextChunk, PredictWithModel(probabilities, emotions)))
    /\ attempts' = Append(attempts, Attempt(TRUE, FALSE, FALSE, FALSE))
    /\ UNCHANGED <<detectorVars, pc, segmentVars, aggregateVars, response, classifyVars>>

\* _predict_with_features returns: zero_crossing_rate accepted the audio
FeaturesPredict(model_raised) ==
    /\ NextChunk.finite
    /\ \E outcome \in PiptrackOutcomes(NextChunk.audio_data) :
          LET f == ExtractFeatures(NextChunk.audio_data, outcome.track, outcome.raises)
          IN  /\ features' = f
              /\ raw_scores' = RuleScores(f, emotions)
              /\ prediction' = PredictWithFeatures(f, emotions)
              /\ results' = Append(results, Result(NextChunk, PredictWithFeatures(f, emotions)))
    /\ attempts' = Append(attempts, Attempt(model_raised, model_raised, TRUE, FALSE))
    /\ UNCHANGED <<pc, response>>

\* line 156 is outside the try of lines 159-172: librosa rejects audio that
\* is not finite everywhere, and the exception leaves predict_emotion
FeaturesRaise(model_raised) ==
    /\ ~NextChunk.finite
    /\ attempts' = Append(attempts, Attempt(model_raised, model_raised, TRUE, TRUE))
    /\ pc' = "error"
    /\ response' = ErrorResponse("features")
    /\ UNCHANGED <<results, classifyVars>>

\* lines 92-94: the model raised, _predict_with_features is the fallback
PredictModelRaised ==
    /\ pc = "predict"
    /\ Len(results) < Len(chunks)
    /\ model_loaded
    /\ (FeaturesPredict(TRUE) \/ FeaturesRaise(TRUE))
    /\ UNCHANGED <<detectorVars, segmentVars, aggregateVars>>

\* line 45: no model was loaded
PredictNoModel ==
    /\ pc = "predict"
    /\ Len(results) < Len(chunks)
    /\ ~model_loaded
    /\ (FeaturesPredict(FALSE) \/ FeaturesRaise(FALSE))
    /\ UNCHANGED <<detectorVars, segmentVars, aggregateVars>>

PredictDone ==
    /\ pc = "predict"
    /\ Len(results) = Len(chunks)
    /\ pc' = "aggregate"
    /\ UNCHANGED <<detectorVars, segmentVars, results, aggregateVars, response, attempts,
                   classifyVars>>

(***************************************************************************)
(* analyze_audio, lines 62-76.                                             *)
(***************************************************************************)
Respond ==
    /\ pc = "aggregate"
    /\ emotion_changes' = DetectEmotionChanges(results)
    /\ statistics' = CalculateStatistics(results)
    /\ response' = [status |-> "success", error |-> "", results |-> results,
                    emotion_changes |-> emotion_changes', statistics |-> statistics']
    /\ pc' = "done"
    /\ UNCHANGED <<detectorVars, segmentVars, results, attempts, classifyVars>>

Next ==
    \/ ProcessAudioRaises
    \/ ProcessAudioLoaded
    \/ SplitStep
    \/ SplitDone
    \/ PredictModel
    \/ PredictModelRaised
    \/ PredictNoModel
    \/ PredictDone
    \/ Respond

Spec == Init /\ [][Next]_vars

(***************************************************************************)
(* The rule-based classifier on its own: _predict_with_features from line  *)
(* 104 on, for feature vectors on and around every threshold, with either  *)
(* label list in self.emotions (line 29 when no model was loaded, line 22  *)
(* when it runs as the fallback of line 94).                               *)
(***************************************************************************)
DefaultConfig == [chunk_duration |-> 300, sample_rate |-> 16000]

FeatureInputs ==
    [energy : {Rat(n, 1000) : n \in {0, 199, 200, 201, 500, 501, 600}},
     zero_crossing_rate : {Rat(n, 100) : n \in {0, 5, 10, 11}},
     pitch_mean : {Rat(n, 1) : n \in {0, 100, 149, 150, 151}},
     pitch_var : {Rat(n * n, 1) : n \in {0, 50, 51, 60}}]

InitClassify ==
    /\ model_loaded \in BOOLEAN
    /\ emotions = IF model_loaded THEN ModelEmotions ELSE FallbackEmotions
    /\ config = DefaultConfig
    /\ pc = "classify"
    /\ audio_data = << >>
    /\ audio_finite = TRUE
    /\ current_position = 0
    /\ chunks = << >>
    /\ results = << >>
    /\ emotion_changes = << >>
    /\ statistics = NoStatistics
    /\ response = NoResponse
    /\ attempts = << >>
    /\ features \in FeatureInputs
    /\ raw_scores = << >>
    /\ prediction = NoPrediction

Classify ==
    /\ pc = "classify"
    /\ raw_scores' = RuleScores(features, emotions)
    /\ prediction' = PredictWithFeatures(features, emotions)
    /\ pc' = "classified"
    /\ UNCHANGED <<detectorVars, segmentVars, results, aggregateVars, response, attempts,
                   features>>

NextClassify == Classify

SpecClassify == InitClassify /\ [][NextClassify]_vars

(***************************************************************************)
(* The aggregation on its own: lines 62-76 of analyze_audio on prediction  *)
(* sequences of up to MaxResults chunks of the default 3.0 s, the last one *)
(* 1.0 s or 3.0 s long, with labels from AggLabels and a confidence that   *)
(* differs from one prediction to the next.                                *)
(***************************************************************************)
AggLabels == {"neutral", "happy", "sad"}
LastDurations == {100, 300}

PredictionInput(n, labels, last) ==
    [i \in 1..n |->
        [start_time |-> 300 * (i - 1),
         end_time |-> IF i = n THEN 300 * (i - 1) + last ELSE 300 * i,
         emotion |-> labels[i],
         confidence |-> 5000 + 100 * i,
         all_scores |-> << >>]]

PredictionInputs ==
    UNION { { PredictionInput(n, labels, last) : labels \in [1..n -> AggLabels],
                                                 last \in LastDurations }
            : n \in 0..MaxResults }

InitAggregate ==
    /\ model_loaded = FALSE
    /\ emotions = FallbackEmotions
    /\ config = DefaultConfig
    /\ pc = "aggregate"
    /\ audio_data = << >>
    /\ audio_finite = TRUE
    /\ current_position = 0
    /\ chunks = << >>
    /\ results \in PredictionInputs
    /\ emotion_changes = << >>
    /\ statistics = NoStatistics
    /\ response = NoResponse
    /\ attempts = << >>
    /\ features = NoFeatures
    /\ raw_scores = << >>
    /\ prediction = NoPrediction

NextAggregate == Respond

SpecAggregate == InitAggregate /\ [][NextAggregate]_vars

(***************************************************************************)
(* The segmentation on its own: _split_into_chunks on every waveform of up *)
(* to MaxSamples samples, for the configurations of Configs and two more   *)
(* that AudioProcessor.__init__ accepts as well: 0.50 s at 3 Hz is one     *)
(* sample per chunk (int(1.5)), 0.25 s at 3 Hz is none (int(0.75)).  A     *)
(* loop iteration that can run does run: weak fairness of the loop.        *)
(***************************************************************************)
SegmentConfigs ==
    Configs \cup { [chunk_duration |-> 50, sample_rate |-> 3],
                   [chunk_duration |-> 25, sample_rate |-> 3] }

InitSegment ==
    /\ model_loaded = FALSE
    /\ emotions = FallbackEmotions
    /\ config \in SegmentConfigs
    /\ pc = "split"
    /\ audio_data \in Waveforms
    /\ audio_finite = TRUE
    /\ current_position = 0
    /\ chunks = << >>
    /\ results = << >>
    /\ emotion_changes = << >>
    /\ statistics = NoStatistics
    /\ response = NoResponse
    /\ attempts = << >>
    /\ features = NoFeatures
    /\ raw_scores = << >>
    /\ prediction = NoPrediction

NextSegment == SplitStep \/ SplitDone

SpecSegment == InitSegment /\ [][NextSegment]_vars /\ WF_vars(NextSegment)

(***************************************************************************)
(* Properties.                                                             *)
(***************************************************************************)
Keys(d) == [i \in 1..Len(d) |-> d[i].k]

\* the prediction call that has just returned, and its chunk and result
LastAttempt == attempts[Len(attempts)]
RuleReturned ==
    /\ attempts # << >>
    /\ LastAttempt.rule_ran
    /\ ~LastAttempt.error
LastChunk == chunks[Len(attempts)]
LastResult == results[Len(attempts)]

\* the decision table of the rule-based classifier, row by row
C1_Rows(f) ==
    << [cond |-> RatGt(f.energy, Rat(5, 10)) /\ RatGt(f.pitch_var, Rat(50 * 50, 1)),
        scores |-> <<[k |-> "angry", v |-> Rat(4, 10)], [k |-> "surprised", v |-> Rat(3, 10)]>>],
       [cond |-> RatGt(f.energy, Rat(5, 10)) /\ RatLe(f.pitch_var, Rat(50 * 50, 1)),
        scores |-> <<[k |-> "happy", v |-> Rat(5, 10)]>>],
       [cond |-> RatLt(f.energy, Rat(2, 10)) /\ RatLt(f.pitch_mean, Rat(150, 1)),
        scores |-> <<[k |-> "sad", v |-> Rat(6, 10)]>>],
       [cond |-> RatLt(f.energy, Rat(2, 10)) /\ RatGe(f.pitch_mean, Rat(150, 1)),
        scores |-> <<[k |-> "neutral", v |-> Rat(5, 10)]>>],
       [cond |-> RatGt(f.zero_crossing_rate, Rat(1, 10)),
        scores |-> <<[k |-> "fearful", v |-> Rat(4, 10)], [k |-> "neutral", v |-> Rat(4, 10)]>>],
       [cond |-> TRUE,
        scores |-> <<[k |-> "neutral", v |-> Rat(4, 10)]>>] >>

C1_FirstMatch(f) ==
    LET rows == C1_Rows(f)
    IN  rows[CHOOSE i \in 1..Len(rows) :
                rows[i].cond /\ \A j \in 1..(i - 1) : ~rows[j].cond]

C1_Example ==
    [energy |-> Rat(6, 10), zero_crossing_rate |-> Rat(5, 100),
     pitch_mean |-> Rat(100, 1), pitch_var |-> Rat(60 * 60, 1)]

\* C1: whenever the rule-based classifier has run on a feature vector, the
\* unnormalized scores are those of the first matching row of the decision
\* table and 0 for every other label of self.emotions; the vector energy 0.6,
\* pitch_std 60, pitch_mean 100, zcr 0.05 is classified angry (4/7) over
\* surprised (3/7).
C1_DecisionTable ==
    raw_scores # << >> =>
        LET row == C1_FirstMatch(features)
        IN  /\ Keys(raw_scores) = emotions
            /\ \A i \in 1..Len(raw_scores) :
                  raw_scores[i].v = DictGet(row.scores, raw_scores[i].k, Zero)
            /\ \A i \in 1..Len(row.scores) : DictHas(raw_scores, row.scores[i].k)
            /\ features = C1_Example =>
                  /\ prediction.emotion = "angry"
                  /\ DictGet(prediction.scores, "angry", Zero) = Rat(4, 7)
                  /\ DictGet(prediction.scores, "surprised", Zero) = Rat(3, 7)
                  /\ prediction.confidence = 5714

C1_Witness ==
    /\ pc = "classified"
    /\ features = C1_Example
    /\ prediction.emotion = "angry"

\* a chunk with no signal has been classified by the rule-based classifier
C2_SilentChunkClassified ==
    /\ RuleReturned
    /\ LastChunk.finite
    /\ IsSilent(LastChunk.audio_data)

C2_UnitDistribution(label) ==
    /\ features = NoFeatures
    /\ LastResult.emotion = label
    /\ LastResult.confidence = 10000
    /\ \A i \in 1..Len(LastResult.all_scores) :
          LastResult.all_scores[i].v =
              IF LastResult.all_scores[i].k = label THEN One ELSE Zero

\* C2 as stated: an all-zero chunk has the zero feature vector and is
\* classified neutral with confidence 1.0, distribution neutral = 1.0.
C2_SilentIsNeutral ==
    C2_SilentChunkClassified => C2_UnitDistribution("neutral")

\* C2 amended: an all-zero chunk has the zero feature vector and is classified
\* sad with confidence 1.0, distribution sad = 1.0 (the row energy < 0.2 and
\* pitch_mean < 150 of the decision table).
C2_SilentIsSad ==
    C2_SilentChunkClassified => C2_UnitDistribution("sad")

C2_Witness ==
    /\ C2_SilentChunkClassified
    /\ LastResult.emotion = "sad"
    /\ Len(LastChunk.audio_data) > 1

\* the first label, in the order of `order`, whose score in d is maximal
C3_ArgMaxInOrder(d, order) ==
    order[CHOOSE i \in 1..Len(order) :
            /\ DictHas(d, order[i])
            /\ \A j \in 1..Len(d) : RatLe(d[j].v, DictGet(d, order[i], Zero))
            /\ \A j \in 1..(i - 1) :
                  RatLt(DictGet(d, order[j], Zero), DictGet(d, order[i], Zero))]

\* C3: whenever the rule-based classifier returns a prediction, with no model
\* loaded or as the fallback after a model failure, the label is the arg-max
\* of the distribution over the fallback labels, ties broken by the order
\* neutral, happy, sad, angry, fearful, surprised (fearful = neutral gives
\* neutral).
C3_ArgMaxFallbackOrder ==
    RuleReturned =>
        LastResult.emotion = C3_ArgMaxInOrder(LastResult.all_scores, FallbackEmotions)

\* segmentation state: the samples per window, and the first sample of chunk i
CfgChunkSamples == ChunkSamples(config.chunk_duration, config.sample_rate)
StartSample(i) == (i - 1) * CfgChunkSamples
FullWindow(i) == StartSample(i) + CfgChunkSamples <= Len(audio_data)
Segmented == pc \in {"predict", "aggregate", "done"} \/ (pc = "error" /\ attempts # << >>)

\* the chunk duration is a whole number of samples, so every window boundary
\* is a whole number of hundredths of a second (as 3.0 s at 16000 Hz is)
Aligned == CfgChunkSamples * 100 = config.chunk_duration * config.sample_rate

C5_Ordered ==
    /\ chunks # << >> => chunks[1].start_time = 0
    /\ \A i \in 1..Len(chunks) : chunks[i].start_time <= chunks[i].end_time
    /\ \A i \in 1..(Len(chunks) - 1) : chunks[i + 1].start_time = chunks[i].end_time

\* C5 as stated: for a non-empty waveform the chunks are in time order from 0
\* without gaps or overlaps, and the last chunk's end_time equals the true
\* duration of the audio and never exceeds it.
C5_CoversTrueDuration ==
    /\ C5_Ordered
    /\ (Segmented /\ audio_data # << >>) =>
          /\ chunks # << >>
          /\ chunks[Len(chunks)].end_time * config.sample_rate = Len(audio_data) * 100

\* C5 amended: for a non-empty waveform the chunks are in time order from 0
\* without gaps or overlaps, and the last chunk's end_time is the true duration
\* rounded to 2 decimals: within 0.005 s of it (above it when rounded up) and
\* never later than the rounded end of the padded window.
C5_CoversRoundedDuration ==
    /\ C5_Ordered
    /\ (Segmented /\ audio_data # << >>) =>
          LET n == Len(chunks)
          IN  /\ n > 0
              /\ 2 * Abs(chunks[n].end_time * config.sample_rate - Len(audio_data) * 100)
                     <= config.sample_rate
              /\ 2 * (chunks[n].end_time * config.sample_rate
                        - (StartSample(n) + CfgChunkSamples) * 100) <= config.sample_rate

\* two chunks, the last one ending above the true duration by rounding
C5_Witness ==
    /\ Segmented
    /\ Len(chunks) = 2
    /\ chunks[2].start_time = chunks[1].end_time
    /\ chunks[2].end_time * config.sample_rate > Len(audio_data) * 100

\* C6 as stated: a decoded waveform with zero samples never passes
\* segmentation: no empty chunk sequence is returned and the analysis does not
\* complete successfully with empty results.
C6_EmptyAudioAborts ==
    /\ ~(pc \in {"predict", "aggregate", "done"} /\ audio_data = << >>)
    /\ ~(response.status = "success" /\ response.results = << >>)

\* C6 amended: segmentation of a decoded waveform with zero samples returns the
\* empty chunk sequence without an error, and the analysis completes
\* successfully with empty results, no change events, total duration 0 and
\* dominant emotion "Unknown"; the only errors seen with a zero-sample
\* waveform are raised by decoding or resampling, before segmentation.
C6_EmptyAudioSucceedsEmpty ==
    audio_data = << >> =>
        /\ chunks = << >>
        /\ results = << >>
        /\ pc = "error" => response.error \in {"load", "resample"}
        /\ pc = "done" =>
              /\ response.status = "success"
              /\ response.results = << >>
              /\ response.emotion_changes = << >>
              /\ response.statistics.total_duration = 0
              /\ response.statistics.dominant_emotion = "Unknown"

C6_Witness ==
    /\ pc = "done"
    /\ audio_data = << >>
    /\ response.status = "success"

\* C7: when the model raises on a chunk the rule-based result is returned for
\* that chunk and no error reaches the caller, and every prediction attempt of
\* a detector with a loaded model tries the model first.
C7_FallbackPerAttempt ==
    \A i \in 1..Len(attempts) :
        /\ model_loaded => attempts[i].model_attempted
        /\ attempts[i].model_raised =>
              /\ attempts[i].rule_ran
              /\ ~attempts[i].error
              /\ i <= Len(results)
              /\ pc # "error"

\* the part of C7 that holds: a detector with a loaded model tries the model
\* on every chunk, also after a failure on an earlier chunk, and a fallback
\* that returns puts its result in that chunk's place
C7_ModelTriedOnEveryAttempt ==
    \A i \in 1..Len(attempts) :
        /\ attempts[i].model_attempted = model_loaded
        /\ (attempts[i].model_raised /\ ~attempts[i].error) =>
              /\ i <= Len(results)
              /\ results[i].start_time = chunks[i].start_time
              /\ results[i].end_time = chunks[i].end_time

\* the model raised on the first chunk and answered on the second
C7_ModelTriedAgain ==
    /\ Len(attempts) = 2
    /\ attempts[1].model_raised
    /\ attempts[2].model_attempted
    /\ ~attempts[2].model_raised

\* C8: once segmentation has succeeded the analysis never aborts, and it
\* returns exactly one prediction per chunk, in chunk order, each with its
\* chunk's start_time and end_time.
C8_CompleteSequence ==
    Segmented =>
        /\ pc # "error"
        /\ response.status # "error"
        /\ pc = "done" =>
              /\ response.status = "success"
              /\ Len(response.results) = Len(chunks)
              /\ \A i \in 1..Len(chunks) :
                    /\ response.results[i].start_time = chunks[i].start_time
                    /\ response.results[i].end_time = chunks[i].end_time

\* the indices whose emotion differs from the emotion one index before
C9_ChangeIndices(rs) == {i \in 2..Len(rs) : rs[i].emotion # rs[i - 1].emotion}

\* the k-th smallest element of a set of integers
C9_Nth(S, k) == CHOOSE i \in S : Cardinality({j \in S : j < i}) = k - 1

C9_Labels(rs) == [i \in 1..Len(rs) |-> rs[i].emotion]

\* C9: the change events are, in time order, exactly one per index i >= 2
\* whose emotion differs from that of index i - 1, with the timestamp and
\* confidence of prediction i, from the emotion of i - 1 to that of i; fewer
\* than 2 predictions or one repeated label give none, and neutral, neutral,
\* happy, happy, sad gives neutral->happy at the 3rd and happy->sad at the 5th.
C9_ChangeEvents ==
    pc = "done" =>
        LET rs == response.results
            ev == response.emotion_changes
            idx == C9_ChangeIndices(rs)
        IN  /\ Len(ev) = Cardinality(idx)
            /\ \A k \in 1..Len(ev) :
                  LET i == C9_Nth(idx, k)
                  IN  /\ ev[k].timestamp = rs[i].start_time
                      /\ ev[k].from_emotion = rs[i - 1].emotion
                      /\ ev[k].to_emotion = rs[i].emotion
                      /\ ev[k].confidence = rs[i].confidence
            /\ Len(rs) < 2 => ev = << >>
            /\ (\A i \in 1..Len(rs) : rs[i].emotion = rs[1].emotion) => ev = << >>
            /\ C9_Labels(rs) = <<"neutral", "neutral", "happy", "happy", "sad">> =>
                  /\ Len(ev) = 2
                  /\ ev[1].from_emotion = "neutral" /\ ev[1].to_emotion = "happy"
                  /\ ev[1].timestamp = rs[3].start_time
                  /\ ev[2].from_emotion = "happy" /\ ev[2].to_emotion = "sad"
                  /\ ev[2].timestamp = rs[5].start_time

C9_Witness ==
    /\ pc = "done"
    /\ C9_Labels(response.results) = <<"neutral", "neutral", "happy", "happy", "sad">>
    /\ Len(response.emotion_changes) = 2

\* the summed end_time - start_time of the predictions labelled l, and the
\* index at which l first appears
C10_Duration(rs, l) ==
    SeqSum([i \in 1..Len(rs) |->
               IF rs[i].emotion = l THEN rs[i].end_time - rs[i].start_time ELSE 0])

C10_First(rs, l) == CHOOSE i \in 1..Len(rs) :
    rs[i].emotion = l /\ \A j \in 1..(i - 1) : rs[j].emotion # l

C10_Present(rs) == {rs[i].emotion : i \in 1..Len(rs)}

\* C10: dominant_emotion is the label of maximal summed end_time - start_time,
\* the first to appear in the sequence among equals, and "Unknown" for an
\* empty sequence; happy 6 s, sad 3 s, neutral 1 s gives happy and the
\* percentages 60, 30, 10.
C10_DominantEmotion ==
    pc = "done" =>
        LET rs == response.results
            st == response.statistics
        IN  /\ rs = << >> => st.dominant_emotion = "Unknown"
            /\ rs # << >> =>
                  /\ st.dominant_emotion \in C10_Present(rs)
                  /\ \A l \in C10_Present(rs) :
                        \/ C10_Duration(rs, l) < C10_Duration(rs, st.dominant_emotion)
                        \/ /\ C10_Duration(rs, l) = C10_Duration(rs, st.dominant_emotion)
                           /\ C10_First(rs, st.dominant_emotion) <= C10_First(rs, l)
            /\ ( /\ C10_Present(rs) = {"happy", "sad", "neutral"}
                 /\ C10_Duration(rs, "happy") = 600
                 /\ C10_Duration(rs, "sad") = 300
                 /\ C10_Duration(rs, "neutral") = 100 ) =>
                  /\ st.dominant_emotion = "happy"
                  /\ DictGet(st.emotion_percentages, "happy", -1) = 6000
                  /\ DictGet(st.emotion_percentages, "sad", -1) = 3000
                  /\ DictGet(st.emotion_percentages, "neutral", -1) = 1000

\* happy and sad tie at 3 s each and sad appears first
C10_Witness ==
    /\ pc = "done"
    /\ Len(response.results) = 2
    /\ response.results[1].emotion = "sad"
    /\ response.results[2].emotion = "happy"
    /\ C10_Duration(response.results, "sad") = C10_Duration(response.results, "happy")
    /\ response.statistics.dominant_emotion = "sad"

\* the example of C10 is among the inputs
C10_ExampleReached ==
    /\ pc = "done"
    /\ C10_Duration(response.results, "happy") = 600
    /\ C10_Duration(response.results, "sad") = 300
    /\ C10_Duration(response.results, "neutral") = 100
    /\ response.statistics.dominant_emotion = "happy"

\* the request whose file no decoder could read: _load_audio raised at line 71
C11_DecodeFailed == response.error = "load"

\* C11: when every decoder raises on the input, the analysis ends with an
\* error response; no chunk was produced, the classifier was never called for
\* the request, and the response carries no results, no change events and no
\* statistics.
C11_DecodeFailureAborts ==
    C11_DecodeFailed =>
        /\ pc = "error"
        /\ response.status = "error"
        /\ audio_data = << >>
        /\ current_position = 0
        /\ chunks = << >>
        /\ attempts = << >>
        /\ features = NoFeatures
        /\ raw_scores = << >>
        /\ prediction = NoPrediction
        /\ results = << >>
        /\ emotion_changes = << >>
        /\ statistics = NoStatistics
        /\ response.results = << >>
        /\ response.emotion_changes = << >>
        /\ response.statistics = NoStatistics

C11_Witness ==
    /\ pc = "error"
    /\ C11_DecodeFailed
    /\ response.status = "error"
    /\ chunks = << >>
    /\ attempts = << >>

\* a waveform of at least one sample and less than one window has been split
C12_ShortWaveform ==
    /\ Segmented
    /\ 1 <= Len(audio_data)
    /\ Len(audio_data) < CfgChunkSamples

\* exactly one chunk, its payload the waveform followed by zeros up to
\* chunk_samples samples
C12_OneChunkPadded ==
    /\ Len(chunks) = 1
    /\ chunks[1].start_time = 0
    /\ Len(chunks[1].audio_data) = CfgChunkSamples
    /\ \A i \in 1..CfgChunkSamples :
          chunks[1].audio_data[i] = IF i <= Len(audio_data) THEN audio_data[i] ELSE 0

\* C12 as stated: a waveform of at least one sample and less than one window
\* gives exactly one chunk, zero-padded on the right to chunk_samples samples,
\* whose end_time equals the true duration of the audio.
C12_EndTimeIsTrueDuration ==
    C12_ShortWaveform =>
        /\ C12_OneChunkPadded
        /\ chunks[1].end_time * config.sample_rate = Len(audio_data) * 100

\* C12 amended: a waveform of at least one sample and less than one window
\* gives exactly one chunk, zero-padded on the right to chunk_samples samples,
\* whose end_time is the true duration of the audio rounded to 2 decimals:
\* within 0.005 s of the true duration, computed from the unpadded sample
\* count and never later than the rounded window length.
C12_EndTimeIsRoundedDuration ==
    C12_ShortWaveform =>
        /\ C12_OneChunkPadded
        /\ 2 * Abs(chunks[1].end_time * config.sample_rate - Len(audio_data) * 100)
               <= config.sample_rate
        /\ chunks[1].duration = chunks[1].end_time
        /\ 2 * (chunks[1].end_time * config.sample_rate - CfgChunkSamples * 100)
               <= config.sample_rate

\* one sample of a three-sample window at 3 Hz: two zeros appended, end_time
\* 0.33 for a true duration of 1/3 s
C12_Witness ==
    /\ C12_ShortWaveform
    /\ Len(audio_data) = 1
    /\ audio_data[1] # 0
    /\ CfgChunkSamples = 3
    /\ Len(chunks) = 1
    /\ chunks[1].audio_data = audio_data \o <<0, 0>>
    /\ chunks[1].end_time = 33
    /\ chunks[1].end_time * config.sample_rate # Len(audio_data) * 100

\* ceil(a / b) for a >= 0 and b >= 1
C13_CeilDiv(a, b) == (a + b - 1) \div b

\* the loop has returned with ceil(total_samples / chunk_samples) chunks, or it
\* runs with chunk_samples = 0 on a non-empty waveform and has not advanced
C13_LoopState ==
    /\ CfgChunkSamples >= 1 =>
          /\ current_position = Min(Len(chunks) * CfgChunkSamples, Len(audio_data))
          /\ pc = "predict" =>
                Len(chunks) = C13_CeilDiv(Len(audio_data), CfgChunkSamples)
    /\ (CfgChunkSamples = 0 /\ audio_data # << >>) =>
          /\ pc = "split"
          /\ current_position = 0

\* an iteration advances current_position when chunk_samples >= 1 and leaves
\* it where it was when chunk_samples = 0
C13_Iteration ==
    (pc = "split" /\ chunks' # chunks) =>
        /\ Len(chunks') = Len(chunks) + 1
        /\ CfgChunkSamples >= 1 => current_position' > current_position
        /\ CfgChunkSamples = 0 => current_position' = current_position

\* the loop is running with chunk_samples >= 1; the loop has returned
C13_Running == pc = "split" /\ CfgChunkSamples >= 1
C13_Returned == pc = "predict"

\* C13: with chunk_samples = int(chunk_duration * sample_rate) >= 1 the loop
\* of _split_into_chunks terminates, current_position strictly increases on
\* every iteration and exactly ceil(total_samples / chunk_samples) chunks are
\* produced; with chunk_samples = 0 and total_samples > 0 current_position
\* never advances and the loop does not return.
C13_LoopTerminates ==
    /\ []C13_LoopState
    /\ [][C13_Iteration]_vars
    /\ C13_Running ~> C13_Returned

\* three samples in windows of two: two chunks, and the loop has returned
C13_Witness ==
    /\ pc = "predict"
    /\ CfgChunkSamples = 2
    /\ Len(audio_data) = 3
    /\ Len(chunks) = 2
    /\ current_position = 3

\* chunk_samples = 0: more chunks than the waveform has samples, all of them
\* empty, and current_position is still 0
C13_NeverAdvances ==
    /\ pc = "split"
    /\ CfgChunkSamples = 0
    /\ audio_data # << >>
    /\ Len(chunks) > Len(audio_data)
    /\ \A i \in 1..Len(chunks) : chunks[i].audio_data = << >>
    /\ current_position = 0

=============================================================================
